---------------------------- MODULE Spec2Model ----------------------------
(***************************************************************************)
(* PageRank (src/pagerank.py): transition_model, sample_pagerank and       *)
(* iterate_pagerank, modelled in exact arithmetic.                         *)
(*                                                                         *)
(* Python floats are modelled as exact rationals.  A single number (a      *)
(* damping factor, one probability of a transition model) is a fraction of *)
(* two integers; a rank table of iterate_pagerank, whose denominators grow *)
(* with every sweep, is a vector of numerators over one common denominator,*)
(* both held as arbitrary-precision naturals (sequences of base-10^4       *)
(* limbs), because they leave the 32-bit range after a few sweeps.         *)
(***************************************************************************)
EXTENDS Integers, Sequences, FiniteSets, TLC

VARIABLES
    corpus,        \* the corpus handed to the function under study
    damping,       \* damping_factor, a fraction [n, d]
    pc,            \* position of the call that is running
    page,          \* transition_model's page / sample_pagerank's current page
    n,             \* sample_pagerank's n
    count,         \* sample_pagerank's count
    sample_PageRank, \* sample_pagerank's PageRank: counters, at the end ranks
    PageRank,      \* iterate_pagerank's PageRank
    new_PageRank,  \* iterate_pagerank's new_PageRank
    building,      \* the dict a comprehension {p: formula(p) ...} is building
    repeat,        \* iterate_pagerank's repeat
    sweeps,        \* passes of the while loop so far (saturates at MaxSweeps)
    outcome        \* what the call returned or raised

vars == <<corpus, damping, pc, page, n, count, sample_PageRank, PageRank,
          new_PageRank, building, repeat, sweeps, outcome>>

None == "none"

---------------------------------------------------------------------------
(* Bounds of the model                                                     *)

MaxPages == 3
MaxLinks == 3
MaxSweeps == 4
MaxSamples == 3
RankGrid == 4
LivePages == 4
OscPages == 3

---------------------------------------------------------------------------
(* Evaluation of arguments.  Every recursive operator below takes its      *)
(* arguments through bound variables, The({body : a \in {a_}}): a bound    *)
(* variable holds a value, so an argument is evaluated once however often  *)
(* the body reads it, also where TLC evaluates ENABLED.                    *)

The(S) == CHOOSE r \in S : TRUE

---------------------------------------------------------------------------
(* Fractions of two integers: the single numbers of the program            *)

RECURSIVE GCD(_, _)
GCD(a_, b_) ==
    The({IF b = 0 THEN a ELSE GCD(b, a % b) : a \in {a_}, b \in {b_}})

Abs(x) == IF x < 0 THEN -x ELSE x

LCM(a_, b_) == The({(a \div GCD(a, b)) * b : a \in {a_}, b \in {b_}})

\* a / b in lowest terms with a positive denominator
Frac(a_, b_) ==
    The({LET g == GCD(Abs(a), Abs(b))
             s == IF b < 0 THEN -1 ELSE 1
         IN  [n |-> s * (a \div g), d |-> s * (b \div g)] :
         a \in {a_}, b \in {b_}})

FInt(k) == [n |-> k, d |-> 1]
FAdd(x_, y_) ==
    The({Frac(x.n * y.d + y.n * x.d, x.d * y.d) : x \in {x_}, y \in {y_}})
FSub(x_, y_) ==
    The({Frac(x.n * y.d - y.n * x.d, x.d * y.d) : x \in {x_}, y \in {y_}})
FDivInt(x_, k_) == The({Frac(x.n, x.d * k) : x \in {x_}, k \in {k_}})
FLess(x_, y_) == The({x.n * y.d < y.n * x.d : x \in {x_}, y \in {y_}})
FLeq(x_, y_) == The({x.n * y.d <= y.n * x.d : x \in {x_}, y \in {y_}})

RECURSIVE FSum(_, _)
FSum(f_, S_) ==
    The({IF S = {} THEN FInt(0)
         ELSE LET x == CHOOSE y \in S : TRUE IN FAdd(f[x], FSum(f, S \ {x})) :
         f \in {f_}, S \in {S_}})

---------------------------------------------------------------------------
(* Arbitrary-precision naturals: little-endian sequences of limbs below    *)
(* Base, without a leading zero limb (zero is the empty sequence)          *)

Base == 100 * 100

Limb(a, i) == IF i <= Len(a) THEN a[i] ELSE 0

RECURSIVE Trim(_)
Trim(a_) ==
    The({IF a = <<>> THEN a
         ELSE IF a[Len(a)] = 0 THEN Trim(SubSeq(a, 1, Len(a) - 1)) ELSE a :
         a \in {a_}})

RECURSIVE BigOf(_)
BigOf(k_) ==
    The({IF k = 0 THEN <<>> ELSE <<k % Base>> \o BigOf(k \div Base) : k \in {k_}})

RECURSIVE AddFrom(_, _, _, _)
AddFrom(a_, b_, i_, c_) ==
    The({IF i > Len(a) /\ i > Len(b) THEN BigOf(c)
         ELSE LET s == Limb(a, i) + Limb(b, i) + c
              IN  <<s % Base>> \o AddFrom(a, b, i + 1, s \div Base) :
         a \in {a_}, b \in {b_}, i \in {i_}, c \in {c_}})

BAdd(a, b) == AddFrom(a, b, 1, 0)

RECURSIVE SubFrom(_, _, _, _)
SubFrom(a_, b_, i_, borrow_) ==
    The({IF i > Len(a) THEN <<>>
         ELSE LET s == a[i] - Limb(b, i) - borrow
              IN  IF s < 0 THEN <<s + Base>> \o SubFrom(a, b, i + 1, 1)
                  ELSE <<s>> \o SubFrom(a, b, i + 1, 0) :
         a \in {a_}, b \in {b_}, i \in {i_}, borrow \in {borrow_}})

\* a - b for a >= b
BSub(a, b) == Trim(SubFrom(a, b, 1, 0))

RECURSIVE MulLimbFrom(_, _, _, _)
MulLimbFrom(a_, k_, i_, c_) ==
    The({IF i > Len(a) THEN BigOf(c)
         ELSE LET s == a[i] * k + c
              IN  <<s % Base>> \o MulLimbFrom(a, k, i + 1, s \div Base) :
         a \in {a_}, k \in {k_}, i \in {i_}, c \in {c_}})

RECURSIVE MulFrom(_, _, _)
MulFrom(a_, b_, j_) ==
    The({IF j > Len(b) THEN <<>>
         ELSE BAdd(MulLimbFrom(a, b[j], 1, 0), <<0>> \o MulFrom(a, b, j + 1)) :
         a \in {a_}, b \in {b_}, j \in {j_}})

BMul(a, b) == Trim(MulFrom(a, b, 1))

RECURSIVE CmpFrom(_, _, _)
CmpFrom(a_, b_, i_) ==
    The({IF i = 0 THEN 0
         ELSE IF a[i] < b[i] THEN -1
         ELSE IF a[i] > b[i] THEN 1
         ELSE CmpFrom(a, b, i - 1) : a \in {a_}, b \in {b_}, i \in {i_}})

\* -1, 0 or 1 as a < b, a = b or a > b
BCmp(a_, b_) ==
    The({IF Len(a) < Len(b) THEN -1
         ELSE IF Len(a) > Len(b) THEN 1
         ELSE CmpFrom(a, b, Len(a)) : a \in {a_}, b \in {b_}})

BLess(a, b) == BCmp(a, b) = -1

\* |a - b|
BDist(a_, b_) ==
    The({IF BLess(a, b) THEN BSub(b, a) ELSE BSub(a, b) : a \in {a_}, b \in {b_}})

RECURSIVE DivFrom(_, _, _, _)
DivFrom(a_, k_, i_, r_) ==
    The({IF i = 0 THEN <<>>
         ELSE LET cur == r * Base + a[i]
              IN  DivFrom(a, k, i - 1, cur % k) \o <<cur \div k>> :
         a \in {a_}, k \in {k_}, i \in {i_}, r \in {r_}})

\* a \div k and a % k for a small k (k * Base within the integer range)
BDivS(a_, k) == The({Trim(DivFrom(a, k, Len(a), 0)) : a \in {a_}})

RECURSIVE ModFrom(_, _, _, _)
ModFrom(a_, k_, i_, r_) ==
    The({IF i = 0 THEN r ELSE ModFrom(a, k, i - 1, (r * Base + a[i]) % k) :
         a \in {a_}, k \in {k_}, i \in {i_}, r \in {r_}})

BModS(a_, k) == The({ModFrom(a, k, Len(a), 0) : a \in {a_}})

RECURSIVE BSum(_, _)
BSum(f_, S_) ==
    The({IF S = {} THEN <<>>
         ELSE LET x == CHOOSE y \in S : TRUE IN BAdd(f[x], BSum(f, S \ {x})) :
         f \in {f_}, S \in {S_}})

---------------------------------------------------------------------------
(* Rank tables of iterate_pagerank: table[p] = num[p] / den, and single    *)
(* arbitrary-precision fractions [n, d] for one value of such a table      *)

SmallPrimes == <<2, 3, 5, 7>>

Divisible(t, k) ==
    /\ BModS(t.den, k) = 0
    /\ \A p \in DOMAIN t.num : BModS(t.num[p], k) = 0

\* Lowest terms.  Every denominator of the model is a product of page
\* counts, link counts and damping denominators, all products of SmallPrimes.
RECURSIVE Reduce(_, _)
Reduce(t_, i_) ==
    The({IF i > Len(SmallPrimes) THEN t
         ELSE IF Divisible(t, SmallPrimes[i])
              THEN Reduce([den |-> BDivS(t.den, SmallPrimes[i]),
                           num |-> [p \in DOMAIN t.num |->
                                       BDivS(t.num[p], SmallPrimes[i])]], i)
              ELSE Reduce(t, i + 1) : t \in {t_}, i \in {i_}})

Normalize(t) == Reduce(t, 1)

RECURSIVE DenProduct(_, _)
DenProduct(f_, S_) ==
    The({IF S = {} THEN BigOf(1)
         ELSE LET x == CHOOSE y \in S : TRUE
              IN  BMul(f[x].d, DenProduct(f, S \ {x})) :
         f \in {f_}, S \in {S_}})

\* The table of the values f[p] = [n, d]: directly when they share their
\* denominator (every dict the program builds does), by cross-multiplying
\* otherwise.
Assemble(f_) ==
    The({LET K == DOMAIN f
         IN  IF K = {} THEN [den |-> BigOf(1), num |-> f]
             ELSE LET d0 == f[CHOOSE p \in K : TRUE].d
                  IN  IF \A p \in K : f[p].d = d0
                      THEN Normalize([den |-> d0, num |-> [p \in K |-> f[p].n]])
                      ELSE Normalize([den |-> DenProduct(f, K),
                                      num |-> [p \in K |->
                                          BMul(f[p].n, DenProduct(f, K \ {p}))]]) :
         f \in {f_}})

Entry(t, p) == [n |-> t.num[p], d |-> t.den]

QEq(x_, y_) ==
    The({BMul(x.n, y.d) = BMul(y.n, x.d) : x \in {x_}, y \in {y_}})

\* |x - y| >= thr, for a fraction thr of two integers
QFarApart(x_, y_, thr) ==
    The({BCmp(BMul(BigOf(thr.d), BDist(BMul(x.n, y.d), BMul(y.n, x.d))),
              BMul(BigOf(thr.n), BMul(x.d, y.d))) >= 0 : x \in {x_}, y \in {y_}})

TableSum(t) == BSum(t.num, DOMAIN t.num)

SumsToOne(t) == TableSum(t) = t.den

NoTable == [den |-> <<>>, num |-> <<>>]

---------------------------------------------------------------------------
(* Inputs                                                                  *)

DAMPING == Frac(17, 20)

Keys(c) == DOMAIN c

NumPages(c) == Cardinality(Keys(c))

RECURSIVE CountLinks(_, _)
CountLinks(c_, S_) ==
    The({IF S = {} THEN 0
         ELSE LET x == CHOOSE y \in S : TRUE
              IN  Cardinality(c[x]) + CountLinks(c, S \ {x}) :
         c \in {c_}, S \in {S_}})

\* What crawl returns for k pages: links to pages of the corpus only, and
\* no page linking to itself
Crawled(k) ==
    {c \in [1..k -> SUBSET (1..k)] : \A p \in 1..k : p \notin c[p]}

Corpora(maxPages, maxLinks) ==
    UNION {{c \in Crawled(k) : CountLinks(c, 1..k) <= maxLinks} : k \in 1..maxPages}

EmptyCorpus == [p \in {} |-> {}]

---------------------------------------------------------------------------
(* transition_model                                                        *)

\* transition_model dividing damping_factor by len(corpus)
transition_model_over_corpus(c, p, d) ==
    IF c[p] = {}
    THEN [q \in Keys(c) |-> Frac(1, NumPages(c))]
    ELSE LET randomly_among_linked == FDivInt(d, NumPages(c))
             randomly_among_all == FDivInt(FSub(FInt(1), d), NumPages(c))
         IN  [q \in Keys(c) |->
                 IF q \in c[p]
                 THEN FAdd(randomly_among_all, randomly_among_linked)
                 ELSE randomly_among_all]

transition_model(c, p, d) ==
    IF c[p] = {}
    THEN [q \in Keys(c) |-> Frac(1, NumPages(c))]
    ELSE LET randomly_among_linked == FDivInt(d, Cardinality(c[p]))
             randomly_among_all == FDivInt(FSub(FInt(1), d), NumPages(c))
         IN  [q \in Keys(c) |->
                 IF q \in c[p]
                 THEN FAdd(randomly_among_all, randomly_among_linked)
                 ELSE randomly_among_all]

\* corpus[page] of line 64 raises KeyError for a page that is no key
TransitionModel ==
    /\ pc = "tm_call"
    /\ IF page \in Keys(corpus)
       THEN /\ outcome' = transition_model(corpus, page, damping)
            /\ pc' = "tm_done"
       ELSE /\ outcome' = "KeyError"
            /\ pc' = "raised"
    /\ UNCHANGED <<corpus, damping, page, n, count, sample_PageRank, PageRank,
                   new_PageRank, building, repeat, sweeps>>

---------------------------------------------------------------------------
(* sample_pagerank                                                         *)

\* random.choices(population, weights, k=1): any page of positive weight
Choices(weights) == {q \in DOMAIN weights : FLess(FInt(0), weights[q])}

\* PageRank[page] = 1 in place of PageRank[page] += 1
VisitOnce(counters, p) == [counters EXCEPT ![p] = 1]

\* PageRank[page] += 1
Visit(counters, p) == [counters EXCEPT ![p] = @ + 1]

\* lines 88-95; random.choice of an empty list raises IndexError
SampleStart ==
    /\ pc = "sample_call"
    /\ IF Keys(corpus) = {}
       THEN /\ outcome' = "IndexError"
            /\ pc' = "raised"
            /\ UNCHANGED <<sample_PageRank, page, count>>
       ELSE /\ sample_PageRank' = [p \in Keys(corpus) |-> 0]
            /\ \E q \in Keys(corpus) : page' = q
            /\ count' = n
            /\ pc' = "sample_loop"
            /\ UNCHANGED outcome
    /\ UNCHANGED <<corpus, damping, n, PageRank, new_PageRank, building,
                   repeat, sweeps>>

\* one pass of the while loop, lines 97-106
SampleStep ==
    /\ pc = "sample_loop"
    /\ count # 0
    /\ sample_PageRank' = Visit(sample_PageRank, page)
    /\ \E q \in Choices(transition_model(corpus, page, damping)) : page' = q
    /\ count' = count - 1
    /\ UNCHANGED <<corpus, damping, pc, n, PageRank, new_PageRank, building,
                   repeat, sweeps, outcome>>

\* lines 109-110
SampleReturn ==
    /\ pc = "sample_loop"
    /\ count = 0
    /\ sample_PageRank' = [p \in Keys(corpus) |-> Frac(sample_PageRank[p], n)]
    /\ outcome' = sample_PageRank'
    /\ pc' = "sample_done"
    /\ UNCHANGED <<corpus, damping, page, n, count, PageRank, new_PageRank,
                   building, repeat, sweeps>>

---------------------------------------------------------------------------
(* iterate_pagerank                                                        *)

Threshold == Frac(1, 1000)

\* a page without links counted as linking to every other page, not to itself
NumLinksOthers(c, i) ==
    IF c[i] # {} THEN Cardinality(c[i])
    ELSE IF NumPages(c) > 1 THEN NumPages(c) - 1 ELSE 1

\* NumLinks of lines 127 and 132
NumLinks(c, i) == IF c[i] # {} THEN Cardinality(c[i]) ELSE NumPages(c)

\* formula without the else branch of lines 129-133
FeedsLinkedOnly(c, i, p) == p \in c[i]

\* whether page i adds PageRank[i] / NumLinks to the summation of page p
Feeds(c, i, p) == IF c[i] # {} THEN p \in c[i] ELSE TRUE

RECURSIVE LinkLcm(_, _)
LinkLcm(c_, S_) ==
    The({IF S = {} THEN 1
         ELSE LET x == CHOOSE y \in S : TRUE
              IN  LCM(NumLinks(c, x), LinkLcm(c, S \ {x})) :
         c \in {c_}, S \in {S_}})

\* the summation of formula(p) over the denominator R.den * M
RECURSIVE SummationNum(_, _, _, _, _)
SummationNum(c_, R_, p_, M_, S_) ==
    The({IF S = {} THEN <<>>
         ELSE LET i == CHOOSE y \in S : TRUE
                  rest == SummationNum(c, R, p, M, S \ {i})
              IN  IF Feeds(c, i, p)
                  THEN BAdd(BMul(R.num[i], BigOf(M \div NumLinks(c, i))), rest)
                  ELSE rest :
         c \in {c_}, R \in {R_}, p \in {p_}, M \in {M_}, S \in {S_}})

\* (1 - damping_factor) / len(corpus)
first_condition(c, d) == FDivInt(FSub(FInt(1), d), NumPages(c))

\* the summation of lines 123-133 for page p, reading the rank table R
summation(c, R, p) ==
    The({[n |-> SummationNum(c, R, p, M, Keys(c)), d |-> BMul(R.den, BigOf(M))] :
         M \in {LinkLcm(c, Keys(c))}})

\* damping_factor * summation
second_condition(d, s_) ==
    The({[n |-> BMul(BigOf(d.n), s.n), d |-> BMul(BigOf(d.d), s.d)] : s \in {s_}})

\* x + y for a fraction x of two integers and an arbitrary-precision y
QAddF(x_, y_) ==
    The({[n |-> BAdd(BMul(BigOf(x.n), y.d), BMul(y.n, BigOf(x.d))),
          d |-> BMul(BigOf(x.d), y.d)] : x \in {x_}, y \in {y_}})

\* formula(page) of lines 121-135, reading the rank table R
formula(c_, d_, R_, p_) ==
    The({QAddF(first_condition(c, d), second_condition(d, summation(c, R, p))) :
         c \in {c_}, d \in {d_}, R \in {R_}, p \in {p_}})

\* {p: 1 / N for p in corpus}
Uniform(c) ==
    Assemble([p \in Keys(c) |-> [n |-> BigOf(1), d |-> BigOf(NumPages(c))]])

\* {page: formula(page) for page in corpus} with PageRank = R
Sweep(c, d, R) == Assemble([p \in Keys(c) |-> formula(c, d, R, p)])

\* all(...) in place of any(...)
AllChange(c, R, S) ==
    \A p \in Keys(c) : QFarApart(Entry(R, p), Entry(S, p), Threshold)

\* any(abs(PageRank[p] - new_PageRank[p]) >= 0.001 for p in corpus)
AnyChange(c, R, S) ==
    \E p \in Keys(c) : QFarApart(Entry(R, p), Entry(S, p), Threshold)

\* return new_PageRank
ReturnedNew(R, S) == S

\* what line 154 returns, of PageRank = R and new_PageRank = S
Returned(R, S) == R

\* lines 137-145
IterInit ==
    /\ pc = "iter_call"
    /\ PageRank' = Uniform(corpus)
    /\ new_PageRank' = Sweep(corpus, damping, PageRank')
    /\ repeat' = TRUE
    /\ sweeps' = 0
    /\ pc' = "iter_loop"
    /\ UNCHANGED <<corpus, damping, page, n, count, sample_PageRank, building,
                   outcome>>

\* one pass of the while loop, lines 146-153
LoopPass ==
    /\ pc = "iter_loop"
    /\ repeat
    /\ PageRank' = new_PageRank
    /\ new_PageRank' = Sweep(corpus, damping, PageRank')
    /\ repeat' = AnyChange(corpus, PageRank', new_PageRank')
    /\ sweeps' = IF sweeps < MaxSweeps THEN sweeps + 1 ELSE sweeps
    /\ UNCHANGED <<corpus, damping, pc, page, n, count, sample_PageRank,
                   building, outcome>>

\* the loop test fails, line 154
IterReturn ==
    /\ pc = "iter_loop"
    /\ ~repeat
    /\ outcome' = Returned(PageRank, new_PageRank)
    /\ pc' = "iter_done"
    /\ UNCHANGED <<corpus, damping, page, n, count, sample_PageRank, PageRank,
                   new_PageRank, building, repeat, sweeps>>

---------------------------------------------------------------------------
(* One pass of the loop with the dict comprehension of line 149 taken one  *)
(* page at a time, in any order                                            *)

\* ranks written in place: formula reads the new rank of a page already done
SeenInPlace(R, b) ==
    Assemble([q \in DOMAIN R.num |-> IF q \in DOMAIN b THEN b[q] ELSE Entry(R, q)])

\* the table formula reads while the comprehension has built b: PageRank,
\* rebound at line 148 only
Seen(R, b) == R

NoDict == [p \in {} |-> None]

\* lines 147-148
PassBegin ==
    /\ pc = "pass_call"
    /\ repeat' = FALSE
    /\ PageRank' = new_PageRank
    /\ building' = NoDict
    /\ pc' = "pass_eval"
    /\ UNCHANGED <<corpus, damping, page, n, count, sample_PageRank,
                   new_PageRank, sweeps, outcome>>

\* formula(page) for the next page of the comprehension
EvalPage ==
    /\ pc = "pass_eval"
    /\ \E p \in Keys(corpus) \ DOMAIN building :
          building' = [q \in DOMAIN building \cup {p} |->
              IF q = p
              THEN formula(corpus, damping, Seen(PageRank, building), p)
              ELSE building[q]]
    /\ UNCHANGED <<corpus, damping, pc, page, n, count, sample_PageRank,
                   PageRank, new_PageRank, repeat, sweeps, outcome>>

\* new_PageRank.update(...) and the test of lines 152-153
PassEnd ==
    /\ pc = "pass_eval"
    /\ DOMAIN building = Keys(corpus)
    /\ new_PageRank' = Assemble(building)
    /\ repeat' = AnyChange(corpus, PageRank, new_PageRank')
    /\ pc' = "pass_done"
    /\ UNCHANGED <<corpus, damping, page, n, count, sample_PageRank,
                   PageRank, building, sweeps, outcome>>

---------------------------------------------------------------------------
(* Specifications: one per function, each started on every input of a      *)
(* bounded set                                                             *)

AllCorpora(maxPages) == Corpora(maxPages, maxPages * maxPages)

Dampings == {Frac(0, 1), Frac(1, 2), DAMPING, Frac(1, 1)}

Idle ==
    /\ page = 0
    /\ n = 0
    /\ count = 0
    /\ sample_PageRank = None
    /\ PageRank = NoTable
    /\ new_PageRank = NoTable
    /\ building = None
    /\ repeat = FALSE
    /\ sweeps = 0
    /\ outcome = NoTable

\* transition_model(corpus, page, damping)
TMInit ==
    /\ corpus \in AllCorpora(MaxPages)
    /\ damping \in Dampings
    /\ pc = "tm_call"
    /\ page \in Keys(corpus)
    /\ n = 0
    /\ count = 0
    /\ sample_PageRank = None
    /\ PageRank = NoTable
    /\ new_PageRank = NoTable
    /\ building = None
    /\ repeat = FALSE
    /\ sweeps = 0
    /\ outcome = None

TMNext == TransitionModel

TMSpec == TMInit /\ [][TMNext]_vars

\* sample_pagerank(corpus, damping, n).  random.choices draws from the pages
\* of positive weight, which are the same pages for every damping below 1.
SampleDampings == {DAMPING, Frac(1, 1)}

SampleInit ==
    /\ corpus \in Corpora(MaxPages, MaxLinks)
    /\ damping \in SampleDampings
    /\ pc = "sample_call"
    /\ page = 0
    /\ n \in 1..MaxSamples
    /\ count = 0
    /\ sample_PageRank = None
    /\ PageRank = NoTable
    /\ new_PageRank = NoTable
    /\ building = None
    /\ repeat = FALSE
    /\ sweeps = 0
    /\ outcome = None

SampleNext == SampleStart \/ SampleStep \/ SampleReturn

SampleSpec == SampleInit /\ [][SampleNext]_vars

\* iterate_pagerank(corpus, damping), followed for MaxSweeps passes of its loop
Init ==
    /\ corpus \in Corpora(MaxPages, MaxLinks)
    /\ damping \in Dampings
    /\ pc = "iter_call"
    /\ Idle

CappedPass == sweeps < MaxSweeps /\ LoopPass

Next == IterInit \/ CappedPass \/ IterReturn

Spec == Init /\ [][Next]_vars

\* iterate_pagerank(corpus, damping) with 0 < damping < 1, run to its end
LiveDampings == {Frac(1, 2), Frac(2, 3)}

LiveInit ==
    /\ corpus \in Corpora(LivePages, MaxLinks)
    /\ damping \in LiveDampings
    /\ pc = "iter_call"
    /\ Idle

IterNext == IterInit \/ LoopPass \/ IterReturn

LiveSpec == LiveInit /\ [][IterNext]_vars /\ WF_vars(IterNext)

\* iterate_pagerank(corpus, 1), run as long as it runs
OscInit ==
    /\ corpus \in AllCorpora(OscPages)
    /\ damping = Frac(1, 1)
    /\ pc = "iter_call"
    /\ Idle

OscSpec == OscInit /\ [][IterNext]_vars /\ WF_vars(IterNext)

\* one pass of iterate_pagerank's loop from any rank table of the grid
GridTables(c) ==
    {Normalize([den |-> BigOf(RankGrid), num |-> [p \in Keys(c) |-> BigOf(v[p])]]) :
        v \in {w \in [Keys(c) -> 0..RankGrid] :
                  BSum([p \in Keys(c) |-> BigOf(w[p])], Keys(c)) = BigOf(RankGrid)}}

PassInit ==
    /\ corpus \in Corpora(MaxPages, MaxLinks)
    /\ damping \in Dampings
    /\ pc = "pass_call"
    /\ page = 0
    /\ n = 0
    /\ count = 0
    /\ sample_PageRank = None
    /\ PageRank = NoTable
    /\ new_PageRank \in GridTables(corpus)
    /\ building = None
    /\ repeat = TRUE
    /\ sweeps = 0
    /\ outcome = None

PassNext == PassBegin \/ EvalPage \/ PassEnd

PassSpec == PassInit /\ [][PassNext]_vars

\* calls that break the contract: an empty corpus, a damping factor outside
\* [0, 1], a page that is no key.  sample_pagerank and iterate_pagerank are
\* called on the empty corpus only: with a damping factor outside [0, 1] the
\* weights and ranks turn negative, which the tables above do not hold.
BadDampings == {Frac(-1, 2), Frac(3, 2)}

InUnit(d) == FLeq(FInt(0), d) /\ FLeq(d, FInt(1))

ContractInit ==
    /\ corpus \in AllCorpora(MaxPages) \cup {EmptyCorpus}
    /\ damping \in Dampings \cup BadDampings
    /\ pc \in {"tm_call", "sample_call", "iter_call"}
    /\ page \in 0..(MaxPages + 1)
    /\ n \in 0..MaxSamples
    /\ \/ /\ pc = "tm_call"
          /\ page >= 1
          /\ n = 0
          /\ page \notin Keys(corpus) \/ ~InUnit(damping)
       \/ /\ pc = "sample_call"
          /\ page = 0
          /\ n >= 1
          /\ corpus = EmptyCorpus
       \/ /\ pc = "iter_call"
          /\ page = 0
          /\ n = 0
          /\ corpus = EmptyCorpus
    /\ count = 0
    /\ sample_PageRank = None
    /\ PageRank = NoTable
    /\ new_PageRank = NoTable
    /\ building = None
    /\ repeat = FALSE
    /\ sweeps = 0
    /\ outcome = None

ContractNext ==
    TransitionModel \/ SampleStart \/ IterInit \/ LoopPass \/ IterReturn

ContractSpec == ContractInit /\ [][ContractNext]_vars

---------------------------------------------------------------------------
(* Properties                                                              *)

\* C1: transition_model returns a table over exactly the corpus keys, with
\* 1/N everywhere when corpus[page] is empty, and otherwise (1 - damping)/N
\* for a page that is not linked and (1 - damping)/N + damping/|corpus[page]|
\* for a linked page.
TransitionModelValues ==
    pc = "tm_done" =>
        LET N == NumPages(corpus)
            L == Cardinality(corpus[page])
            dn == damping.n
            dd == damping.d
        IN  /\ DOMAIN outcome = Keys(corpus)
            /\ \A p \in Keys(corpus) :
                 IF corpus[page] = {}
                 THEN outcome[p].n * N = outcome[p].d
                 ELSE IF p \notin corpus[page]
                 THEN outcome[p].n * (dd * N) = outcome[p].d * (dd - dn)
                 ELSE outcome[p].n * (dd * N * L)
                        = outcome[p].d * ((dd - dn) * L + dn * N)

TransitionModelWitness ==
    /\ pc = "tm_done"
    /\ damping = DAMPING
    /\ NumPages(corpus) = MaxPages
    /\ Cardinality(corpus[page]) = 1
    /\ \E p \in Keys(corpus) : outcome[p] = Frac(1, 20)
    /\ \E p \in Keys(corpus) : outcome[p] = Frac(9, 10)

\* C2: while sample_pagerank runs, its counters sum to the number of steps
\* taken and each step adds one to exactly one counter; the ranks it returns
\* sum to 1 and lie in [0, 1].
SampleCountsSteps ==
    /\ [](pc = "sample_loop" =>
            FSum([p \in Keys(corpus) |-> FInt(sample_PageRank[p])], Keys(corpus))
                = FInt(n - count))
    /\ [](pc = "sample_done" =>
            /\ FSum(outcome, Keys(corpus)) = FInt(1)
            /\ \A p \in Keys(corpus) : InUnit(outcome[p]))
    /\ [][pc = "sample_loop" /\ pc' = "sample_loop" =>
            \E p \in Keys(corpus) :
                /\ sample_PageRank'[p] = sample_PageRank[p] + 1
                /\ \A q \in Keys(corpus) \ {p} :
                       sample_PageRank'[q] = sample_PageRank[q]]_vars

SampleWitness ==
    /\ pc = "sample_done"
    /\ n = MaxSamples
    /\ \E p, q \in Keys(corpus) :
          /\ outcome[p] = Frac(2, n)
          /\ outcome[q] = Frac(n - 2, n)

\* C3: the rank tables of iterate_pagerank sum to 1 after the initialisation
\* and after every pass of the loop, and so does the table it returns.
RanksSumToOne ==
    /\ pc \in {"iter_loop", "iter_done"} =>
           SumsToOne(PageRank) /\ SumsToOne(new_PageRank)
    /\ pc = "iter_done" => SumsToOne(outcome)

RanksSumWitness ==
    /\ pc = "iter_done"
    /\ sweeps >= 2
    /\ \E p \in Keys(corpus) : corpus[p] = {}
    /\ \E p, q \in Keys(corpus) : outcome.num[p] # outcome.num[q]

\* C4 as claimed: iterate_pagerank returns new_PageRank, the table its last
\* pass computed.
ReturnsNewRanks == pc = "iter_done" => outcome = new_PageRank

\* C4 as amended: iterate_pagerank returns PageRank, the table its last pass
\* started from; new_PageRank, which that pass computed from it and found
\* less than 0.001 away on every page, is dropped.
ReturnsOldRanks ==
    pc = "iter_done" =>
        /\ outcome = PageRank
        /\ new_PageRank = Sweep(corpus, damping, outcome)
        /\ \A p \in Keys(corpus) :
               ~QFarApart(Entry(outcome, p), Entry(new_PageRank, p), Frac(1, 1000))

ReturnsOldWitness ==
    /\ pc = "iter_done"
    /\ outcome # new_PageRank

\* C5: one more application of the update to the returned table changes no
\* rank by 0.001 or more.
ReturnedIsFixedPoint ==
    pc = "iter_done" =>
        \A p \in Keys(corpus) :
            ~QFarApart(Entry(outcome, p),
                       Entry(Sweep(corpus, damping, outcome), p), Frac(1, 1000))

FixedPointWitness ==
    /\ pc = "iter_done"
    /\ sweeps >= 3
    /\ \E p \in Keys(corpus) :
          ~QEq(Entry(outcome, p), Entry(Sweep(corpus, damping, outcome), p))

\* |S[p] - R[p]|
Change(R, S, p) ==
    [n |-> BDist(BMul(R.num[p], S.den), BMul(S.num[p], R.den)),
     d |-> BMul(R.den, S.den)]

QLeq(x_, y_) ==
    The({BCmp(BMul(x.n, y.d), BMul(y.n, x.d)) <= 0 : x \in {x_}, y \in {y_}})

\* the largest change of a pass
MaxChangeLeq(R1, S1, R0, S0) ==
    \A p \in DOMAIN R1.num : \E q \in DOMAIN R0.num :
        QLeq(Change(R1, S1, p), Change(R0, S0, q))

\* the changes of a pass, summed over the pages
TotalChange(R, S) ==
    [n |-> BSum([p \in DOMAIN R.num |-> Change(R, S, p).n], DOMAIN R.num),
     d |-> BMul(R.den, S.den)]

Terminates == <>(pc = "iter_done")

\* C6 as claimed: for 0 < damping < 1 the loop of iterate_pagerank ends, and
\* the largest change of a rank in a pass never exceeds that of the pass before.
ConvergesMaxChange ==
    /\ Terminates
    /\ [][pc = "iter_loop" /\ pc' = "iter_loop" =>
            MaxChangeLeq(PageRank', new_PageRank', PageRank, new_PageRank)]_vars

\* C6 as amended: for 0 < damping < 1 the loop of iterate_pagerank ends, and
\* the changes of the ranks in a pass, summed over the pages, never exceed
\* those of the pass before.
ConvergesTotalChange ==
    /\ Terminates
    /\ [][pc = "iter_loop" /\ pc' = "iter_loop" =>
            QLeq(TotalChange(PageRank', new_PageRank'),
                 TotalChange(PageRank, new_PageRank))]_vars

ConvergesWitness ==
    /\ pc = "iter_done"
    /\ sweeps >= MaxSweeps
    /\ NumPages(corpus) = LivePages
    /\ damping = Frac(2, 3)

\* C7: the loop of iterate_pagerank ends after a bounded number of passes for
\* every damping factor in [0, 1], damping = 1 included.
LoopIsBounded == <>(pc \in {"iter_done", "raised"})

\* C8: a call that breaks the contract (an empty corpus, a damping factor
\* outside [0, 1], a page that is no corpus key) raises and returns no table.
BadInputs ==
    \/ Keys(corpus) = {}
    \/ ~InUnit(damping)
    \/ pc \in {"tm_call", "tm_done"} /\ page \notin Keys(corpus)

ContractViolationsRaise ==
    BadInputs => pc \notin {"tm_done", "sample_done", "iter_done"}

\* C9: a pass computes every new rank from the table the pass started with,
\* whatever the order in which the pages are taken.
PassIsSimultaneous ==
    /\ pc = "pass_eval" =>
           /\ PageRank = new_PageRank
           /\ \A p \in DOMAIN building :
                  QEq(building[p], formula(corpus, damping, new_PageRank, p))
    /\ pc = "pass_done" => new_PageRank = Sweep(corpus, damping, PageRank)

PassWitness ==
    /\ pc = "pass_done"
    /\ NumPages(corpus) = MaxPages
    /\ damping = DAMPING
    /\ new_PageRank # PageRank
    /\ \E p \in Keys(corpus) : corpus[p] = {}

RECURSIVE LcmOfDens(_, _)
LcmOfDens(f_, S_) ==
    The({IF S = {} THEN 1
         ELSE LET x == CHOOSE y \in S : TRUE
              IN  LCM(f[x].d, LcmOfDens(f, S \ {x})) : f \in {f_}, S \in {S_}})

\* the sum over the pages i of R[i] * transition_model(c, i, d)[p]
TransitionStep(c, d, R, p) ==
    LET T == [i \in Keys(c) |-> transition_model(c, i, d)[p]]
        L == LcmOfDens(T, Keys(c))
    IN  [n |-> BSum([i \in Keys(c) |->
                        BMul(R.num[i], BigOf(T[i].n * (L \div T[i].d)))], Keys(c)),
         d |-> BMul(R.den, BigOf(L))]

\* C10: for a rank table that sums to 1, formula(p) is the sum over the pages
\* i of rank(i) * transition_model(corpus, i, damping)[p].
FormulaIsTransitionStep ==
    pc \in {"pass_eval", "pass_done"} /\ SumsToOne(PageRank) =>
        \A p \in DOMAIN building :
            QEq(building[p], TransitionStep(corpus, damping, PageRank, p))

FormulaWitness ==
    /\ pc = "pass_done"
    /\ NumPages(corpus) = MaxPages
    /\ damping = Frac(1, 2)
    /\ \E p \in Keys(corpus) : corpus[p] = {} /\ PageRank.num[p] # <<>>
    /\ \E p \in Keys(corpus) : Cardinality(corpus[p]) = 2 /\ PageRank.num[p] # <<>>

===========================================================================
